---- MODULE Spec2Model ----
(***************************************************************************)
(* DictationButton (src/zip/components/DictationButton.tsx): the session   *)
(* coordinator, the silence detector and the recognizer adapter, as a      *)
(* state machine over the host's event loop.  Every handler of the         *)
(* component (click, promise continuation, animation-frame callback,       *)
(* timer callback, recognizer event, effect cleanup) is one atomic action. *)
(***************************************************************************)
EXTENDS Integers, Sequences, FiniteSets, TLC

\* ---------------------------------------------------------------- bounds
MaxHandles == 2      \* live host objects of one kind (streams, graphs, frames, timers)
MaxPending == 2      \* startDictation invocations suspended on getUserMedia at once
MaxStale == 1        \* recognizers of earlier effect runs that still owe their end event
MaxResults == 3      \* length of a recognition event's result list
TimeStepMs == 500    \* granularity of the clock

\* ------------------------------------------------------ program constants
SILENCE_DURATION_MS == 2000
SILENCE_THRESHOLD == 5

NULL == 0
HandleIds == 1..MaxHandles
Recognizer == 1   \* the recognizer the last run of the effect constructed

VARIABLES
  mounted,            \* the component is mounted
  isSupported,        \* the host exposes SpeechRecognition
  isDictating,        \* useState(false)
  recognitionRef,     \* recognitionRef.current: NULL or a recognizer
  recState,           \* host: that recognizer is "none" | "idle" | "started" | "stopping"
  staleRecognizers,   \* host: recognizers of earlier effect runs, stopped, end event to come
  audioContextRef,    \* audioContextRef.current
  openContexts,       \* host: audio contexts whose state is not 'closed'
  streamRef,          \* streamRef.current
  liveStreams,        \* host: media streams with a live track
  silenceTimerRef,    \* silenceTimerRef.current
  timers,             \* host: pending setTimeout callbacks, [id, left]
  animationFrameRef,  \* animationFrameRef.current
  frames,             \* host: pending requestAnimationFrame callbacks of monitorAudio
  pendingStarts,      \* startDictation invocations awaiting getUserMedia
  lastOp,             \* the handler that ran last
  effects,            \* calls the last handler made on the host
  clearedAfter,       \* ms the timer had run that speech made the last handler cancel; -1 if none
  calls,              \* onDictation invocations of the last handler, in order
  lastEvent,          \* the recognition event the last handler received
  stopRun,            \* consecutive stopDictation invocations: [from, count]
  quietFor            \* ms since polling first saw quiet with no loud sample since; -1 if none

vars == <<mounted, isSupported, isDictating, recognitionRef, recState, staleRecognizers,
          audioContextRef, openContexts, streamRef, liveStreams, silenceTimerRef, timers,
          animationFrameRef, frames, pendingStarts, lastOp, effects,
          clearedAfter, calls, lastEvent, stopRun, quietFor>>

\* ------------------------------------------------------------- helpers
Min(S) == CHOOSE x \in S : \A y \in S : x <= y

\* Handles the host can hand out: those of no live object.
FreshHandles(used) == HandleIds \ used

TimerIds(ts) == {t.id : t \in ts}

\* The component's mutable state, as the handlers read and write it.
Snap ==
  [isDictating |-> isDictating, recognitionRef |-> recognitionRef, recState |-> recState,
   staleRecognizers |-> staleRecognizers,
   audioContextRef |-> audioContextRef, openContexts |-> openContexts,
   streamRef |-> streamRef, liveStreams |-> liveStreams,
   silenceTimerRef |-> silenceTimerRef, timers |-> timers,
   animationFrameRef |-> animationFrameRef, frames |-> frames,
   effects |-> {}, clearedAfter |-> -1]

Commit(state) ==
  \E s \in {state} :
  /\ isDictating' = s.isDictating
  /\ recognitionRef' = s.recognitionRef
  /\ recState' = s.recState
  /\ staleRecognizers' = s.staleRecognizers
  /\ audioContextRef' = s.audioContextRef
  /\ openContexts' = s.openContexts
  /\ streamRef' = s.streamRef
  /\ liveStreams' = s.liveStreams
  /\ silenceTimerRef' = s.silenceTimerRef
  /\ timers' = s.timers
  /\ animationFrameRef' = s.animationFrameRef
  /\ frames' = s.frames
  /\ effects' = s.effects
  /\ clearedAfter' = s.clearedAfter

\* ------------------------------------------------ host: SpeechRecognition
\* recognition.stop(): ignored unless the recognizer is started; the end event follows.
RecStop(rs) == IF rs = "started" THEN "stopping" ELSE rs

\* recognition.start() throws InvalidStateError until the end event has fired.
RecStartThrows(rs) == rs # "idle"

\* ----------------------------------------------------------- stopDictation
StopRecognizer(s) ==
  IF s.recognitionRef # NULL
  THEN [s EXCEPT !.recState = RecStop(s.recState),
                 !.effects = @ \cup {"recStop"}]
  ELSE s

StopFrame(s) ==
  IF s.animationFrameRef # NULL
  THEN [s EXCEPT !.frames = @ \ {s.animationFrameRef},
                 !.animationFrameRef = NULL,
                 !.effects = @ \cup {"cancelFrame"}]
  ELSE s

StopTimer(s) ==
  IF s.silenceTimerRef # NULL
  THEN [s EXCEPT !.timers = {t \in @ : t.id # s.silenceTimerRef},
                 !.silenceTimerRef = NULL,
                 !.effects = @ \cup {"clearTimer"}]
  ELSE s

\* a slip: the tracks are stopped and the handle is kept
StopStreamKeepsHandle(s) ==
  IF s.streamRef # NULL
  THEN [s EXCEPT !.effects = @ \cup (IF s.streamRef \in s.liveStreams
                                     THEN {"trackStop"} ELSE {"trackStopDead"}),
                 !.liveStreams = @ \ {s.streamRef}]
  ELSE s

StopStream(s) ==
  IF s.streamRef # NULL
  THEN [s EXCEPT !.effects = @ \cup (IF s.streamRef \in s.liveStreams
                                     THEN {"trackStop"} ELSE {"trackStopDead"}),
                 !.liveStreams = @ \ {s.streamRef},
                 !.streamRef = NULL]
  ELSE s

StopContext(s) ==
  IF s.audioContextRef # NULL /\ s.audioContextRef \in s.openContexts
  THEN [s EXCEPT !.openContexts = @ \ {s.audioContextRef},
                 !.audioContextRef = NULL,
                 !.effects = @ \cup {"ctxClose"}]
  ELSE s

stopDictation(s) ==
  [StopContext(StopStream(StopTimer(StopFrame(StopRecognizer(s)))))
     EXCEPT !.isDictating = FALSE]

\* ------------------------------------------------------------ monitorAudio
Abs(x) == IF x < 0 THEN -x ELSE x

RECURSIVE SumDeviation(_)
SumDeviation(data) ==
  IF data = <<>> THEN 0 ELSE Abs(Head(data) - 128) + SumDeviation(Tail(data))

\* averageVolume > SILENCE_THRESHOLD, with averageVolume = sum / dataArray.length
IsLoud(data) == SumDeviation(data) > SILENCE_THRESHOLD * Len(data)

\* a slip: speech leaves the pending timer alone
SilenceBranchKeepsTimer(s, loud) ==
  IF loud THEN s
  ELSE IF s.silenceTimerRef = NULL
       THEN LET id == Min(FreshHandles(TimerIds(s.timers)))
            IN  [s EXCEPT !.timers = @ \cup {[id |-> id, left |-> SILENCE_DURATION_MS]},
                          !.silenceTimerRef = id,
                          !.effects = @ \cup {"setTimer"}]
       ELSE s

\* a slip: every quiet sample arms a timer, whether or not one is pending
SilenceBranchAlwaysArms(s, loud) ==
  IF loud
  THEN IF s.silenceTimerRef # NULL
       THEN [s EXCEPT !.timers = {t \in @ : t.id # s.silenceTimerRef},
                      !.silenceTimerRef = NULL,
                      !.effects = @ \cup {"clearTimer"}]
       ELSE s
  ELSE IF FreshHandles(TimerIds(s.timers)) # {}
       THEN LET id == Min(FreshHandles(TimerIds(s.timers)))
            IN  [s EXCEPT !.timers = @ \cup {[id |-> id, left |-> SILENCE_DURATION_MS]},
                          !.silenceTimerRef = id,
                          !.effects = @ \cup {"setTimer"}]
       ELSE s

\* ms the pending timer of the slot has run
Elapsed(s) ==
  LET held == {t \in s.timers : t.id = s.silenceTimerRef}
  IN  IF held = {} THEN -1 ELSE SILENCE_DURATION_MS - (CHOOSE t \in held : TRUE).left

SilenceBranch(s, loud) ==
  IF loud
  THEN IF s.silenceTimerRef # NULL
       THEN [s EXCEPT !.timers = {t \in @ : t.id # s.silenceTimerRef},
                      !.silenceTimerRef = NULL,
                      !.clearedAfter = Elapsed(s),
                      !.effects = @ \cup {"clearTimer"}]
       ELSE s
  ELSE IF s.silenceTimerRef = NULL
       THEN LET id == Min(FreshHandles(TimerIds(s.timers)))
            IN  [s EXCEPT !.timers = @ \cup {[id |-> id, left |-> SILENCE_DURATION_MS]},
                          !.silenceTimerRef = id,
                          !.effects = @ \cup {"setTimer"}]
       ELSE s

RequestFrame(s) ==
  LET id == Min(FreshHandles(s.frames))
  IN  [s EXCEPT !.frames = @ \cup {id}, !.animationFrameRef = id]

monitorAudioStopsRecognizer(s, data) ==
  RequestFrame(IF IsLoud(data) THEN SilenceBranch(s, TRUE)
               ELSE StopRecognizer(SilenceBranch(s, FALSE)))

monitorAudio(s, data) == RequestFrame(SilenceBranch(s, IsLoud(data)))

CanRequestFrame(s) == FreshHandles(s.frames) # {}
CanArmTimer(s) == FreshHandles(TimerIds(s.timers)) # {}

\* the time-domain frames polling may read (dataArray, unsigned bytes around 128):
\* silence, a mean deviation of exactly 5, one just above 5, and full scale
QuietFrame == <<128, 128, 128>>
FrameData == {QuietFrame, <<123, 133, 123>>, <<123, 134, 123>>, <<0, 255, 0>>}


\* ------------------------------------------------- recognition.onresult
WhiteSpace == {" ", "\n"}

RECURSIVE TrimStart(_)
TrimStart(str) ==
  IF str # <<>> /\ Head(str) \in WhiteSpace THEN TrimStart(Tail(str)) ELSE str

RECURSIVE TrimEnd(_)
TrimEnd(str) ==
  IF str # <<>> /\ str[Len(str)] \in WhiteSpace
  THEN TrimEnd(SubSeq(str, 1, Len(str) - 1)) ELSE str

\* String.prototype.trim
Trim(str) == TrimEnd(TrimStart(str))

\* for (i = event.resultIndex; i < event.results.length; ++i)
\*   if (results[i].isFinal) finalTranscript += results[i][0].transcript
\* (results is 1-based here, resultIndex stays 0-based; i is the 0-based index)
RECURSIVE FinalTranscript(_, _)
FinalTranscript(event, i) ==
  IF i >= Len(event.results) THEN <<>>
  ELSE (IF event.results[i + 1].isFinal THEN event.results[i + 1].alternatives[1] ELSE <<>>)
       \o FinalTranscript(event, i + 1)

\* a slip: the scan starts at 0 instead of event.resultIndex
onresultFromZero(event) ==
  LET finalTranscript == FinalTranscript(event, 0)
  IN  IF finalTranscript # <<>> THEN <<Trim(finalTranscript)>> ELSE <<>>

\* the onDictation invocations of one result event
onresult(event) ==
  LET finalTranscript == FinalTranscript(event, event.resultIndex)
  IN  IF finalTranscript # <<>> THEN <<Trim(finalTranscript)>> ELSE <<>>

\* transcripts the recognizer may report (strings as sequences of characters)
Transcripts == {<<>>, <<" ">>, <<"a">>, <<" ", "b", " ">>}
Alternatives == {<<t>> : t \in Transcripts} \cup {<<<<"a">>, <<"x">>>>}
ResultEntries == [isFinal : BOOLEAN, alternatives : Alternatives]
ResultLists == UNION {[1..n -> ResultEntries] : n \in 0..MaxResults}
RecognitionEvents ==
  {[resultIndex |-> k, results |-> rl] : k \in 0..MaxResults, rl \in ResultLists}

\* the events delivered while the whole component is explored
SessionEvents ==
  {[resultIndex |-> 0, results |-> <<[isFinal |-> f, alternatives |-> <<t>>]>>] :
     f \in BOOLEAN, t \in {<<" ">>, <<"a">>}}

\* ------------------------------------------------------------- the session
Phase ==
  IF ~isDictating THEN "Idle"
  ELSE IF /\ streamRef # NULL /\ audioContextRef # NULL /\ animationFrameRef # NULL
          /\ recognitionRef # NULL /\ recState = "started"
       THEN "Active"
       ELSE "Starting"

NoRun == [from |-> "none", count |-> 0]

\* one more stopDictation invocation in a row
NextRun ==
  IF stopRun.count = 0 THEN [from |-> Phase, count |-> 1]
  ELSE [from |-> stopRun.from, count |-> 2]

NoResult == /\ calls' = <<>> /\ lastEvent' = <<>>

Init ==
  /\ mounted = TRUE
  /\ isSupported \in BOOLEAN
  /\ isDictating = FALSE
  \* the mount effect constructs the recognizer when the capability exists
  /\ recognitionRef = IF isSupported THEN Recognizer ELSE NULL
  /\ recState = IF isSupported THEN "idle" ELSE "none"
  /\ staleRecognizers = 0
  /\ audioContextRef = NULL /\ openContexts = {}
  /\ streamRef = NULL /\ liveStreams = {}
  /\ silenceTimerRef = NULL /\ timers = {}
  /\ animationFrameRef = NULL /\ frames = {}
  /\ pendingStarts = 0
  /\ lastOp = "mount"
  /\ effects = {}
  /\ clearedAfter = -1
  /\ calls = <<>> /\ lastEvent = <<>>
  /\ stopRun = NoRun
  /\ quietFor = -1

\* -------------------------------------------- toggleDictation / startDictation
startDictationShowsLate ==
  /\ recognitionRef # NULL
  /\ pendingStarts < MaxPending
  /\ pendingStarts' = pendingStarts + 1
  /\ effects' = {"getUserMedia"}
  /\ clearedAfter' = -1
  /\ UNCHANGED <<isDictating, recognitionRef, recState, staleRecognizers, audioContextRef,
                 openContexts, streamRef, liveStreams, silenceTimerRef, timers,
                 animationFrameRef, frames>>

\* the button is rendered disabled, without onClick, when !isSupported
startDictation ==
  /\ recognitionRef # NULL
  /\ pendingStarts < MaxPending
  /\ isDictating' = TRUE
  /\ pendingStarts' = pendingStarts + 1
  /\ effects' = {"getUserMedia"}
  /\ clearedAfter' = -1
  /\ UNCHANGED <<recognitionRef, recState, staleRecognizers, audioContextRef, openContexts,
                 streamRef, liveStreams, silenceTimerRef, timers, animationFrameRef, frames>>

ToggleStart ==
  /\ mounted /\ isSupported /\ ~isDictating
  /\ startDictation
  /\ lastOp' = "toggleStart"
  /\ stopRun' = NoRun
  /\ NoResult
  /\ UNCHANGED <<mounted, isSupported, quietFor>>

ToggleStop ==
  /\ mounted /\ isSupported /\ isDictating
  /\ Commit(stopDictation(Snap))
  /\ lastOp' = "toggleStop"
  /\ stopRun' = NextRun
  /\ quietFor' = -1
  /\ NoResult
  /\ UNCHANGED <<mounted, isSupported, pendingStarts>>

\* ------------------------------ startDictation after await getUserMedia
StartCatchSilent(s) == stopDictation([s EXCEPT !.effects = @ \cup {"log"}])

\* catch (err) { console.error; alert; stopDictation() }
StartCatch(s) == stopDictation([s EXCEPT !.effects = @ \cup {"log", "alert"}])

WithStream(s) ==
  LET id == Min(FreshHandles(s.liveStreams))
  IN  [s EXCEPT !.streamRef = id, !.liveStreams = @ \cup {id}]

WithContext(s) ==
  LET id == Min(FreshHandles(s.openContexts))
  IN  [s EXCEPT !.audioContextRef = id, !.openContexts = @ \cup {id}]

WithRecognizerStarted(s) ==
  [s EXCEPT !.recState = "started", !.effects = @ \cup {"recStart"}]

\* the state the continuation leaves, for an outcome of the host calls
StartResume(s, outcome, data) ==
  IF outcome = "micRejects" THEN StartCatch(s)
  ELSE IF outcome = "contextThrows" THEN StartCatch(WithStream(s))
  ELSE IF outcome = "sourceThrows" THEN StartCatch(WithContext(WithStream(s)))
  ELSE LET m == monitorAudio(WithContext(WithStream(s)), data)
       IN  IF RecStartThrows(m.recState)
           THEN StartCatch(m)
           ELSE WithRecognizerStarted(m)

StartFailures == {"micRejects", "contextThrows", "sourceThrows"}

\* the host can hand out the handles the continuation asks for
HostCanServe(outcome) ==
  \/ outcome = "micRejects"
  \/ /\ FreshHandles(liveStreams) # {}
     /\ outcome # "contextThrows" => FreshHandles(openContexts) # {}
     /\ outcome = "granted" => CanRequestFrame(Snap) /\ CanArmTimer(Snap)

\* the try block throws: an acquisition step rejects or throws, or
\* recognitionRef.current.start() does
StartFails(outcome) == outcome \in StartFailures \/ RecStartThrows(recState)

QuietAfterSample(q, loud) == IF loud THEN -1 ELSE IF q < 0 THEN 0 ELSE q

AcquireComplete(outcome, data) ==
  /\ pendingStarts > 0
  /\ HostCanServe(outcome)
  /\ pendingStarts' = pendingStarts - 1
  /\ \E s \in {StartResume(Snap, outcome, data)} :
     LET failed == StartFails(outcome)
     IN  /\ Commit(s)
         /\ lastOp' = IF failed THEN "startFailed" ELSE "startResumed"
         /\ quietFor' = IF failed THEN -1 ELSE QuietAfterSample(quietFor, IsLoud(data))
  /\ stopRun' = NoRun
  /\ NoResult
  /\ UNCHANGED <<mounted, isSupported>>

\* ------------------------------------------------ animation-frame callback
MonitorTick(f, data) ==
  /\ f \in frames
  /\ CanRequestFrame([Snap EXCEPT !.frames = @ \ {f}])
  /\ (~IsLoud(data) /\ silenceTimerRef = NULL) => CanArmTimer(Snap)
  /\ Commit(monitorAudio([Snap EXCEPT !.frames = @ \ {f}], data))
  /\ lastOp' = IF IsLoud(data) THEN "tickLoud" ELSE "tickQuiet"
  /\ quietFor' = QuietAfterSample(quietFor, IsLoud(data))
  /\ stopRun' = NoRun
  /\ NoResult
  /\ UNCHANGED <<mounted, isSupported, pendingStarts>>

\* ------------------------------------------------------- setTimeout callback
SilenceTimeout(t) ==
  /\ t \in timers /\ t.left = 0
  /\ Commit(stopDictation([Snap EXCEPT !.timers = @ \ {t}]))
  /\ lastOp' = "silence"
  /\ stopRun' = NextRun
  /\ quietFor' = -1
  /\ NoResult
  /\ UNCHANGED <<mounted, isSupported, pendingStarts>>

\* the clock: a due timer runs before time moves on
AdvanceTime ==
  /\ \A t \in timers : t.left > 0
  /\ timers # {} \/ (quietFor >= 0 /\ quietFor < SILENCE_DURATION_MS)
  /\ timers' = {[id |-> t.id, left |-> IF t.left > TimeStepMs THEN t.left - TimeStepMs ELSE 0] :
                  t \in timers}
  /\ quietFor' = IF quietFor < 0 THEN -1
                 ELSE IF quietFor + TimeStepMs > SILENCE_DURATION_MS
                      THEN SILENCE_DURATION_MS ELSE quietFor + TimeStepMs
  /\ lastOp' = "time"
  /\ effects' = {}
  /\ clearedAfter' = -1
  /\ NoResult
  /\ UNCHANGED <<mounted, isSupported, isDictating, recognitionRef, recState,
                 staleRecognizers, audioContextRef, openContexts, streamRef, liveStreams,
                 silenceTimerRef, animationFrameRef, frames, pendingStarts, stopRun>>


\* ------------------------------------------------------- recognizer events
\* who: the recognizer recognitionRef holds ("current") or one of an earlier effect
\* run ("stale"); the handlers of both reach the same refs
Sources == {"current", "stale"}

Emits(who) ==
  IF who = "current" THEN recState \in {"started", "stopping"} ELSE staleRecognizers > 0

\* recognition.onresult; onDictation is App.handleDictation
RecognizerResult(who, event) ==
  /\ Emits(who)
  /\ calls' = onresult(event)
  /\ lastEvent' = <<event>>
  /\ lastOp' = "recResult"
  /\ effects' = {}
  /\ clearedAfter' = -1
  /\ stopRun' = NoRun
  /\ UNCHANGED <<mounted, isSupported, isDictating, recognitionRef, recState,
                 staleRecognizers, audioContextRef, openContexts, streamRef, liveStreams,
                 silenceTimerRef, timers, animationFrameRef, frames, pendingStarts,
                 quietFor>>

\* the host: after the end event the recognizer can be started again
AfterEnd(s, who) ==
  IF who = "current" THEN [s EXCEPT !.recState = "idle"]
  ELSE [s EXCEPT !.staleRecognizers = @ - 1]

\* the host: an error ends the session, the end event follows
AfterError(s, who) ==
  IF who = "current" THEN [s EXCEPT !.recState = "stopping"] ELSE s

\* recognition.onend = () => stopDictation()
RecognizerEnd(who) ==
  /\ Emits(who)
  /\ Commit(stopDictation(AfterEnd(Snap, who)))
  /\ lastOp' = "recEnd"
  /\ stopRun' = NextRun
  /\ quietFor' = -1
  /\ NoResult
  /\ UNCHANGED <<mounted, isSupported, pendingStarts>>

\* recognition.onerror = (event) => { console.error; stopDictation() }
RecognizerError(who) ==
  /\ Emits(who)
  /\ Commit(stopDictation([AfterError(Snap, who) EXCEPT !.effects = {"log"}]))
  /\ lastOp' = "recError"
  /\ stopRun' = NextRun
  /\ quietFor' = -1
  /\ NoResult
  /\ UNCHANGED <<mounted, isSupported, pendingStarts>>

\* ------------------------------------- useEffect([onDictation, isSupported])
\* App passes a new handleDictation on every render, so every render of the
\* parent runs the cleanup and then the effect again: a new recognizer replaces
\* the one the ref held, which keeps its handlers.
Reconstruct(s) ==
  [s EXCEPT !.staleRecognizers = IF s.recState = "stopping" THEN @ + 1 ELSE @,
            !.recState = "idle",
            !.recognitionRef = Recognizer]

EffectUnguarded(s, supported) == Reconstruct(s)

\* if (!isSupported) return;  then the recognizer is built and stored
Effect(s, supported) == IF supported THEN Reconstruct(s) ELSE s

\* the cleanup the previous run returned, if it returned one, then the effect
ParentRerender ==
  /\ mounted
  /\ \E s \in {Effect(IF isSupported THEN stopDictation(Snap) ELSE Snap, isSupported)} :
       /\ s.staleRecognizers <= MaxStale
       /\ Commit(s)
  /\ lastOp' = "rerender"
  /\ stopRun' = IF isSupported THEN NextRun ELSE NoRun
  /\ quietFor' = -1
  /\ NoResult
  /\ UNCHANGED <<mounted, isSupported, pendingStarts>>

\* the cleanup of the last effect; without the capability the effect returned none
Unmount ==
  /\ mounted
  /\ mounted' = FALSE
  /\ Commit(IF isSupported THEN stopDictation(Snap) ELSE Snap)
  /\ lastOp' = "unmount"
  /\ stopRun' = IF isSupported THEN NextRun ELSE NoRun
  /\ quietFor' = -1
  /\ NoResult
  /\ UNCHANGED <<isSupported, pendingStarts>>

\* ---------------------------------------------------------- specifications
Next ==
  \/ ToggleStart
  \/ ToggleStop
  \/ \E outcome \in StartFailures : AcquireComplete(outcome, QuietFrame)
  \/ \E data \in FrameData : AcquireComplete("granted", data)
  \/ \E f \in frames, data \in FrameData : MonitorTick(f, data)
  \/ \E t \in timers : SilenceTimeout(t)
  \/ AdvanceTime
  \/ \E who \in Sources, event \in SessionEvents : RecognizerResult(who, event)
  \/ \E who \in Sources : RecognizerEnd(who)
  \/ \E who \in Sources : RecognizerError(who)
  \/ ParentRerender
  \/ Unmount

Spec == Init /\ [][Next]_vars

\* the recognizer adapter alone: a session is started and the recognizer
\* delivers its first event, drawn from all the events within the bounds
AssemblyNext ==
  \/ ToggleStart
  \/ \E data \in FrameData : AcquireComplete("granted", data)
  \/ /\ lastEvent = <<>>
     /\ \E event \in RecognitionEvents : RecognizerResult("current", event)

AssemblySpec == Init /\ [][AssemblyNext]_vars

\* ------------------------------------------------------------------ claims
ReleaseEffects == {"cancelFrame", "clearTimer", "trackStop", "trackStopDead", "ctxClose"}

HandlesNull ==
  /\ streamRef = NULL /\ audioContextRef = NULL
  /\ silenceTimerRef = NULL /\ animationFrameRef = NULL

NothingHeld == frames = {} /\ timers = {} /\ liveStreams = {} /\ openContexts = {}

StopTriggers == {"toggleStop", "silence", "recEnd", "recError", "unmount"}

\* C1 as stated: after two stopDictation invocations in a row from Active the
\* component is Idle, every handle is null, the recognizer handle included, and the
\* second invocation made no call at all on the host.
C1_IdempotentStopAsStated ==
  (stopRun.from = "Active" /\ stopRun.count = 2) =>
    /\ ~isDictating /\ HandlesNull /\ recognitionRef = NULL
    /\ effects \cap (ReleaseEffects \cup {"recStop"}) = {}

\* C1 amended: after every stopDictation of a run of invocations from Active the
\* component is Idle with the stream, graph, timer and frame handles null and
\* the recognizer stopped; the recognizer handle is kept; the second invocation
\* releases nothing and only repeats the recognizer's stop() call.
C1_IdempotentStop ==
  (stopRun.from = "Active" /\ stopRun.count >= 1) =>
    /\ ~isDictating /\ HandlesNull
    /\ recognitionRef # NULL /\ recState # "started"
    /\ stopRun.count = 2 => (effects \cap ReleaseEffects = {} /\ "recStop" \in effects)

\* two triggers overlap: the recognizer's end event follows another stop
C1_Witness ==
  /\ stopRun = [from |-> "Active", count |-> 2]
  /\ lastOp = "recEnd"
  /\ effects = {"recStop"}

\* C2: once the component is unmounted nothing is left behind, whenever the
\* pending acquisition completes: no timer, no frame, no live stream, no open
\* graph, and the recognizer is not running.
C2_UnmountLeavesNothing ==
  ~mounted => (NothingHeld /\ recState # "started")

\* C3: after any stop trigger of a run of triggers on an Active session every
\* resource is released, the UI is not dictating, and no release step met a
\* resource that was already released.
C3_OrderIndependence ==
  (stopRun.from = "Active" /\ stopRun.count >= 1 /\ lastOp \in StopTriggers) =>
    /\ ~isDictating /\ HandlesNull /\ NothingHeld
    /\ "trackStopDead" \notin effects

\* C4: a start that fails produced the notification and left the component Idle
\* with nothing held and no frame scheduled.
C4_AcquisitionFailureCleansUp ==
  lastOp = "startFailed" =>
    /\ "alert" \in effects
    /\ ~isDictating /\ HandlesNull /\ NothingHeld

\* C5: while polling goes on, 2000 ms of quiet samples make the silence timer due,
\* and its callback on an Active session leaves the component Idle with no
\* polling tick and no timer pending.
C5_SilenceStops ==
  /\ (frames # {} /\ quietFor >= SILENCE_DURATION_MS) => \E t \in timers : t.left = 0
  /\ (lastOp = "silence" /\ stopRun = [from |-> "Active", count |-> 1]) =>
       (~isDictating /\ frames = {} /\ timers = {})

\* C6: a pending silence timer has never run for longer than the samples have
\* been quiet, so it cannot elapse (and auto-stop the session) while speech
\* comes back before SILENCE_DURATION_MS of quiet.
C6_SpeechResetsTimer ==
  \A t \in timers : SILENCE_DURATION_MS - t.left <= quietFor

\* speech came back after 1000 ms of quiet in an Active session and cancelled the
\* pending timer
C6_Witness ==
  /\ lastOp = "tickLoud" /\ "clearTimer" \in effects /\ clearedAfter = 1000
  /\ Phase = "Active" /\ timers = {}

\* C7: at most one silence timer is pending, and after a tick that saw a volume
\* above the threshold none is.
C7_SinglePendingTimer ==
  /\ Cardinality(timers) <= 1
  /\ lastOp = "tickLoud" => timers = {}

\* a quiet tick found the timer pending and armed no second one
C7_Witness ==
  /\ lastOp = "tickQuiet" /\ "setTimer" \notin effects
  /\ Cardinality(timers) = 1 /\ \E t \in timers : t.left < SILENCE_DURATION_MS

\* what C8 expects, stated without the handler's loop
ScannedFinals(event) ==
  {i \in (event.resultIndex + 1)..Len(event.results) : event.results[i].isFinal}

RECURSIVE ConcatInOrder(_, _)
ConcatInOrder(event, indices) ==
  IF indices = {} THEN <<>>
  ELSE LET i == Min(indices)
       IN  event.results[i].alternatives[1] \o ConcatInOrder(event, indices \ {i})

IsTrimOf(out, str) ==
  \E i, j \in 0..Len(str) :
    /\ i + j <= Len(str)
    /\ out = SubSeq(str, i + 1, Len(str) - j)
    /\ \A k \in 1..i : str[k] \in WhiteSpace
    /\ \A k \in (Len(str) - j + 1)..Len(str) : str[k] \in WhiteSpace
    /\ out # <<>> => (out[1] \notin WhiteSpace /\ out[Len(out)] \notin WhiteSpace)

\* C8 as stated: one call whenever a scanned entry is final.
C8_TranscriptAssemblyAsStated ==
  lastEvent # <<>> =>
    LET event == lastEvent[1]
        text == ConcatInOrder(event, ScannedFinals(event))
    IN  IF ScannedFinals(event) # {}
        THEN Len(calls) = 1 /\ IsTrimOf(calls[1], text)
        ELSE calls = <<>>

\* C8 amended: one call, with the trimmed concatenation in result order of the
\* top transcripts of the final entries of results[resultIndex..], whenever that
\* concatenation is not the empty string, and no call otherwise.
C8_TranscriptAssembly ==
  lastEvent # <<>> =>
    LET event == lastEvent[1]
        text == ConcatInOrder(event, ScannedFinals(event))
    IN  IF text # <<>>
        THEN Len(calls) = 1 /\ IsTrimOf(calls[1], text)
        ELSE calls = <<>>

\* an event with an entry before resultIndex, then a final and an interim entry
C8_Witness ==
  /\ lastEvent # <<>>
  /\ lastEvent[1].resultIndex = 1
  /\ Len(lastEvent[1].results) = 3
  /\ lastEvent[1].results[1].alternatives[1] = <<"a">>
  /\ lastEvent[1].results[2] = [isFinal |-> TRUE, alternatives |-> <<<<" ", "b", " ">>>>]
  /\ lastEvent[1].results[3] = [isFinal |-> FALSE, alternatives |-> <<<<"a">>, <<"x">>>>]
  /\ calls = << <<"b">> >>

\* C9: every text onDictation receives is non-empty and has no surrounding
\* whitespace.
C9_ForwardedTextNonEmpty ==
  \A k \in 1..Len(calls) :
    /\ calls[k] # <<>>
    /\ calls[k][1] \notin WhiteSpace /\ calls[k][Len(calls[k])] \notin WhiteSpace

\* C10: once a recognizer end or error event is handled the UI is not dictating
\* and no stream, graph, timer or polling loop is held.
C10_RecognizerFailureRecovery ==
  lastOp \in {"recEnd", "recError"} => (~isDictating /\ HandlesNull /\ NothingHeld)

\* C11: there is never more than one live media stream, more than one open
\* audio graph or more than one polling loop, and a toggle never starts a
\* session while a stream, graph, timer or polling loop is still held.
C11_SingleSession ==
  /\ Cardinality(liveStreams) <= 1
  /\ Cardinality(openContexts) <= 1
  /\ Cardinality(frames) <= 1
  /\ lastOp = "toggleStart" => NothingHeld

\* C12: without the speech-recognition capability no recognizer is ever built,
\* the UI never shows dictating, and no stream, graph, timer, polling loop or
\* pending acquisition ever exists, whatever events the component receives.
C12_UnsupportedNeverTransitions ==
  ~isSupported =>
    /\ recognitionRef = NULL /\ recState = "none" /\ staleRecognizers = 0
    /\ ~isDictating /\ pendingStarts = 0
    /\ HandlesNull /\ NothingHeld

\* the effect has run again on a host without the capability
C12_Witness ==
  ~isSupported /\ lastOp = "rerender" /\ recognitionRef = NULL /\ ~isDictating

\* C13: a click on the button starts a session when the UI shows not dictating
\* and runs the stop path when it shows dictating; the start shows dictating at
\* once, with the acquisition still pending and nothing acquired yet, and the
\* stop leaves the UI not dictating with every handle null.
C13_ToggleContract ==
  [][/\ lastOp' = "toggleStart" =>
          /\ ~isDictating /\ isDictating'
          /\ pendingStarts' = pendingStarts + 1
          /\ "getUserMedia" \in effects'
          /\ UNCHANGED <<recState, streamRef, liveStreams, audioContextRef, openContexts,
                         silenceTimerRef, timers, animationFrameRef, frames>>
     /\ lastOp' = "toggleStop" =>
          /\ isDictating /\ ~isDictating'
          /\ HandlesNull'
          /\ pendingStarts' = pendingStarts
          /\ recState = "started" => "recStop" \in effects' /\ recState' = "stopping"
    ]_vars

\* the first click: the UI shows dictating while getUserMedia is pending
C13_Witness ==
  /\ lastOp = "toggleStart" /\ isDictating /\ pendingStarts = 1
  /\ HandlesNull /\ NothingHeld /\ recState = "idle"

\* C14: the stop path runs on an Active session only from the five triggers: the
\* user's click, the silence timer, the recognizer's end event, the recognizer's
\* error event and unmount. No other event, a render of the parent with a new
\* onDictation included, stops an Active session.
C14_FiveStopTriggers ==
  (stopRun.count = 1 /\ stopRun.from = "Active") => lastOp \in StopTriggers

\* C15: a polling tick changes only the silence-timer slot and the animation
\* frame handle: the recognizer, the stream handle and stream, the graph handle
\* and graph and the UI's dictating state are as they were before the tick, and
\* the only host calls it makes besides requesting the next frame arm or clear
\* the silence timer.
C15_TickFrame ==
  [][lastOp' \in {"tickLoud", "tickQuiet"} =>
       /\ UNCHANGED <<recognitionRef, recState, staleRecognizers, streamRef, liveStreams,
                      audioContextRef, openContexts, isDictating, pendingStarts, mounted>>
       /\ effects' \subseteq {"setTimer", "clearTimer"}
    ]_vars

\* a quiet tick of an Active session has armed the silence timer
C15_Witness ==
  /\ lastOp = "tickQuiet" /\ "setTimer" \in effects
  /\ recState = "started" /\ isDictating
  /\ silenceTimerRef # NULL /\ animationFrameRef # NULL

\* C16: the blocking notification is shown exactly by a start attempt that
\* fails during acquisition (the microphone is refused, the audio graph cannot
\* be built, or the recognizer cannot be started); a recognizer error or end
\* event runs the stop path and is never shown as a blocking notification, nor
\* is any other event.
C16_AlertOnlyOnStartFailure ==
  /\ "alert" \in effects <=> lastOp = "startFailed"
  /\ lastOp = "recError" => "log" \in effects /\ ~isDictating /\ HandlesNull
  /\ lastOp = "recEnd" => ~isDictating /\ HandlesNull

\* the microphone was refused: the user is told, nothing was acquired
C16_Witness ==
  /\ lastOp = "startFailed" /\ "alert" \in effects /\ "log" \in effects
  /\ "trackStop" \notin effects /\ ~isDictating /\ liveStreams = {}

\* C17: whenever the mounted component shows not dictating it holds no session
\* resource: no live stream, no open graph, no pending timer, no scheduled
\* tick, no running recognizer; also when the user stopped while startDictation
\* was awaiting the microphone and the acquisition completed afterwards.
C17_IdleHoldsNothing ==
  (mounted /\ ~isDictating) => (NothingHeld /\ recState # "started")

\* C18: the end or error event of a recognizer that was stopped with an earlier
\* session, delivered after a later session has been started, neither ends that
\* session nor releases anything it holds.
C18_SessionIsolation ==
  [][(/\ isDictating
      /\ \/ lastOp' = "recEnd" /\ (recState = "stopping" \/ staleRecognizers' < staleRecognizers)
         \/ lastOp' = "recError" /\ recState = "stopping")
       => /\ isDictating'
          /\ UNCHANGED <<streamRef, liveStreams, audioContextRef, openContexts,
                         silenceTimerRef, timers, animationFrameRef, frames>>
    ]_vars

\* C19: at most one animation-frame callback of monitorAudio is pending, and
\* whenever one is pending animationFrameRef holds its handle, so the single
\* cancelAnimationFrame of the stop path ends all polling.
C19_SinglePollingLoop ==
  /\ Cardinality(frames) <= 1
  /\ frames # {} => frames = {animationFrameRef}

====
